---- MODULE Spec2Model ----
(***************************************************************************)
(* A model of pkg/selector/selector.go: the three entry points Filter,     *)
(* FilterVerbose and FilterWithOutput, rawFilter with its page callback,   *)
(* executeFilters, RetrieveInstanceTypesSupportedInLocation,               *)
(* isSupportedInLocation, sortInstanceTypeInfo and truncateResults.        *)
(*                                                                         *)
(* One behaviour is one invocation of an entry point.  The two EC2 paging  *)
(* calls are the environment: they deliver pages one at a time, may fail   *)
(* instead of delivering a page, and stop when the callback answers false. *)
(***************************************************************************)
EXTENDS Integers, Sequences, FiniteSets, TLC

(***************************************************************************)
(* Strings.  A Go string is modelled as a sequence: location strings as    *)
(* sequences of one-character strings (so that the regular expressions     *)
(* can be matched character by character), instance type names as          *)
(* sequences of byte values (so that strings.Compare can order them).      *)
(***************************************************************************)
LowerLetters ==
    {"a","b","c","d","e","f","g","h","i","j","k","l","m",
     "n","o","p","q","r","s","t","u","v","w","x","y","z"}

DigitsOneToNine == {"1","2","3","4","5","6","7","8","9"}

\* [a-z]{n} starting at position from
LowerRun(s, from, n) ==
    /\ from + n - 1 <= Len(s)
    /\ \A i \in from..(from + n - 1) : s[i] \in LowerLetters

\* the literal character c at position pos
Lit(s, pos, c) == pos <= Len(s) /\ s[pos] = c

\* [1-9] at position pos
DigitAt(s, pos) == pos <= Len(s) /\ s[pos] \in DigitsOneToNine

\* The positions at which a match of
\*   ^[a-z]{2,3}\-([a-z]{1,10}\-)?[a-z]{1,10}\-[1-9]
\* can end (the position of the digit).
RegionPrefixEnds(s) ==
    { e \in 1..Len(s) :
        \E a \in 2..3 :
            /\ LowerRun(s, 1, a)
            /\ Lit(s, a + 1, "-")
            /\ \E p \in {a + 2} \cup
                        { a + 2 + b + 1 : b \in { b \in 1..10 :
                              LowerRun(s, a + 2, b) /\ Lit(s, a + 2 + b, "-") } } :
                   \E c \in 1..10 :
                       /\ LowerRun(s, p, c)
                       /\ Lit(s, p + c, "-")
                       /\ e = p + c + 1
                       /\ DigitAt(s, e) }

\* regexp.MatchString(regionNameRegex, zone): the pattern has no closing $,
\* so any text may follow the digit.
MatchRegionName(zone) == RegionPrefixEnds(zone) # {}

\* regexp.MatchString(zoneIDRegex, zone): ^[a-z]{3}[1-9]{1}\-az[1-9]$
MatchZoneID(zone) ==
    /\ Len(zone) = 8
    /\ LowerRun(zone, 1, 3)
    /\ DigitAt(zone, 4)
    /\ Lit(zone, 5, "-")
    /\ Lit(zone, 6, "a")
    /\ Lit(zone, 7, "z")
    /\ DigitAt(zone, 8)

\* regexp.MatchString(zoneNameRegex, zone):
\*   ^[a-z]{2,3}\-([a-z]{1,10}\-)?[a-z]{1,10}\-[1-9][a-z]$
MatchZoneName(zone) ==
    \E e \in RegionPrefixEnds(zone) :
        e + 1 = Len(zone) /\ zone[e + 1] \in LowerLetters

\* LocationTypeOf without the final else: whatever is not a zone is taken
\* for a region.
LocationTypeOf_NoReject(zone) ==
    IF MatchZoneID(zone) THEN "availability-zone-id"
    ELSE IF MatchZoneName(zone) THEN "availability-zone"
    ELSE "region"

\* The location type the if / else-if chain selects; "" when no branch
\* matches and the function returns the invalid-location error.
LocationTypeOf(zone) ==
    IF MatchZoneID(zone) THEN "availability-zone-id"
    ELSE IF MatchZoneName(zone) THEN "availability-zone"
    ELSE IF MatchRegionName(zone) THEN "region"
    ELSE ""

\* strings.Compare(a, b) on byte sequences: -1, 0 or +1
RECURSIVE Compare(_, _)
Compare(a, b) ==
    IF a = <<>> /\ b = <<>> THEN 0
    ELSE IF a = <<>> THEN -1
    ELSE IF b = <<>> THEN 1
    ELSE IF Head(a) < Head(b) THEN -1
    ELSE IF Head(a) > Head(b) THEN 1
    ELSE Compare(Tail(a), Tail(b))

(***************************************************************************)
(* Go values.  A pointer, slice or map is a record with its dynamic type   *)
(* (shape), whether it is nil, and the value it points at; executeFilters  *)
(* switches on the shape exactly as the Go type switches do.               *)
(***************************************************************************)
Ptr(shape, v) == [isNil |-> FALSE, shape |-> shape, v |-> v]

NilPtr(shape, zero) == [isNil |-> TRUE, shape |-> shape, v |-> zero]

\* An error value.  kind "nil" is Go's nil error; wraps holds the message of
\* the error wrapped with %w ("" when nothing is wrapped).
Error(kind, msg, filterName, instanceType, zone, wraps) ==
    [kind |-> kind, msg |-> msg, filterName |-> filterName,
     instanceType |-> instanceType, zone |-> zone, wraps |-> wraps]

NoError == Error("nil", "", "", <<>>, <<>>, "")

\* fmt.Errorf("The location passed in (%s) is not a valid zone-id, ...", zone)
InvalidLocationError(zone) ==
    Error("InvalidLocationFormat",
          "The location passed in is not a valid zone-id, zone-name, or region name",
          "", <<>>, zone, "")

\* fmt.Errorf("Encountered an error when describing instance type offerings: %w", err)
WrapOfferingsError(err) ==
    Error("Wrapped", "Encountered an error when describing instance type offerings",
          "", <<>>, <<>>, err.msg)

\* What the catalog paging error becomes on its way out of rawFilter:
\* "if err != nil { return nil, err }" hands it on as it is.
PassTypesError(err) == err

\* fmt.Errorf(invalidInstanceSpecTypeMsg) and fmt.Errorf("No filter handler found for %s", ...)
FilterTypeError(msg, filterName, instanceType) ==
    Error("UnsupportedFilterType", msg, filterName, instanceType, <<>>, "")

\* An error as the EC2 client reports it from a paging call
ProviderError(msg) == Error("Provider", msg, "", <<>>, <<>>, "")

(***************************************************************************)
(* The filter keys of the table rawFilter builds for every record.         *)
(***************************************************************************)
FilterKeys ==
    {"cpuArchitecture", "usageClass", "rootDeviceType", "hibernationSupported",
     "vcpusRange", "memoryRange", "gpuMemoryRange", "gpusRange",
     "placementGroupStrategy", "hypervisor", "baremetal", "burstable", "fpga",
     "enaSupport", "vcpusToMemoryRatio", "currentGeneration",
     "networkInterfaces", "networkPerformance"}

(***************************************************************************)
(* Comparators and derived attributes.  Their code is not in selector.go;  *)
(* they follow the comparator rules and the data model of the              *)
(* specification.                                                          *)
(***************************************************************************)
\* a range filter value: inclusive bounds, either of which may be absent
IntRange(hasMin, min, hasMax, max) ==
    [hasMin |-> hasMin, min |-> min, hasMax |-> hasMax, max |-> max]

InRange(n, range) ==
    /\ (range.hasMin => n >= range.min)
    /\ (range.hasMax => n <= range.max)

SeqContains(seq, e) == \E i \in 1..Len(seq) : seq[i] = e

isSupportedFromStrings(instanceTypeValues, target) ==
    ~instanceTypeValues.isNil /\ SeqContains(instanceTypeValues.v, target.v)

isSupportedFromString(instanceTypeValue, target) ==
    ~instanceTypeValue.isNil /\ instanceTypeValue.v = target.v

isSupportedWithBool(instanceTypeValue, target) ==
    ~instanceTypeValue.isNil /\ instanceTypeValue.v = target.v

isSupportedWithRangeInt64(instanceTypeValue, target) ==
    ~instanceTypeValue.isNil /\ InRange(instanceTypeValue.v, target.v)

isSupportedWithRangeInt(instanceTypeValue, target) ==
    ~instanceTypeValue.isNil /\ InRange(instanceTypeValue.v, target.v)

\* floats are held in hundredths (the ratio is rounded to a fixed precision)
isSupportedWithFloat64(instanceTypeValue, target) ==
    ~instanceTypeValue.isNil /\ instanceTypeValue.v = target.v

\* total GPU memory, 0 when the record has no GPU info
getTotalGpuMemory(gpuInfo) ==
    IF gpuInfo.isNil THEN Ptr("*int64", 0) ELSE Ptr("*int64", gpuInfo.v.TotalGpuMemoryInMiB)

RECURSIVE SumCounts(_)
SumCounts(gpus) == IF gpus = <<>> THEN 0 ELSE Head(gpus) + SumCounts(Tail(gpus))

\* total GPU count, 0 when the record has no GPU info
getTotalGpusCount(gpuInfo) ==
    IF gpuInfo.isNil THEN Ptr("*int64", 0) ELSE Ptr("*int64", SumCounts(gpuInfo.v.Gpus))

\* "unsupported" -> false, every other value -> true
supportSyntaxToBool(instanceTypeSupport) ==
    Ptr("*bool", instanceTypeSupport # "unsupported")

\* vCPU / memory, in hundredths
calculateVCpusToMemoryRatio(vcpus, memory) ==
    IF memory = 0 THEN NilPtr("*float64", 0)
    ELSE Ptr("*float64", (vcpus * 100) \div memory)

\* the decimal numbers the network performance descriptions use
Atoi == [w \in {"1", "5", "10", "25", "100"} |->
            CASE w = "1" -> 1 [] w = "5" -> 5 [] w = "10" -> 10
              [] w = "25" -> 25 [] w = "100" -> 100]

\* the bandwidth in a description given as its words, <<"Up","to","10","Gigabit">> -> 10;
\* -1 when the description names none
getNetworkPerformance(words) ==
    LET at == { i \in 1..(Len(words) - 1) :
                    words[i + 1] = "Gigabit" /\ words[i] \in DOMAIN Atoi }
    IN  IF at = {} THEN Ptr("*int", -1)
        ELSE Ptr("*int", Atoi[words[CHOOSE i \in at : \A j \in at : i <= j]])

(***************************************************************************)
(* filterToInstanceSpecMappingPairs: filter name -> filterPair, the user's *)
(* filter value and the record's attribute.                                *)
(***************************************************************************)
filterPair(filterValue, instanceSpec) ==
    [filterValue |-> filterValue, instanceSpec |-> instanceSpec]

filterToInstanceSpecMappingPairs(filters, instanceTypeInfo) ==
    LET isFpga == ~instanceTypeInfo.FpgaInfo.isNil
    IN  [k \in FilterKeys |->
          CASE k = "cpuArchitecture" ->
                 filterPair(filters.CPUArchitecture,
                            Ptr("[]*string", instanceTypeInfo.SupportedArchitectures))
            [] k = "usageClass" ->
                 filterPair(filters.UsageClass,
                            Ptr("[]*string", instanceTypeInfo.SupportedUsageClasses))
            [] k = "rootDeviceType" ->
                 filterPair(filters.RootDeviceType,
                            Ptr("[]*string", instanceTypeInfo.SupportedRootDeviceTypes))
            [] k = "hibernationSupported" ->
                 filterPair(filters.HibernationSupported,
                            Ptr("*bool", instanceTypeInfo.HibernationSupported))
            [] k = "vcpusRange" ->
                 filterPair(filters.VCpusRange,
                            Ptr("*int64", instanceTypeInfo.DefaultVCpus))
            [] k = "memoryRange" ->
                 filterPair(filters.MemoryRange,
                            Ptr("*int64", instanceTypeInfo.SizeInMiB))
            [] k = "gpuMemoryRange" ->
                 filterPair(filters.GpuMemoryRange,
                            getTotalGpuMemory(instanceTypeInfo.GpuInfo))
            [] k = "gpusRange" ->
                 filterPair(filters.GpusRange,
                            getTotalGpusCount(instanceTypeInfo.GpuInfo))
            [] k = "placementGroupStrategy" ->
                 filterPair(filters.PlacementGroupStrategy,
                            Ptr("[]*string", instanceTypeInfo.SupportedStrategies))
            [] k = "hypervisor" ->
                 filterPair(filters.Hypervisor,
                            Ptr("*string", instanceTypeInfo.Hypervisor))
            [] k = "baremetal" ->
                 filterPair(filters.BareMetal,
                            Ptr("*bool", instanceTypeInfo.BareMetal))
            [] k = "burstable" ->
                 filterPair(filters.Burstable,
                            Ptr("*bool", instanceTypeInfo.BurstablePerformanceSupported))
            [] k = "fpga" ->
                 filterPair(filters.Fpga, Ptr("*bool", isFpga))
            [] k = "enaSupport" ->
                 filterPair(filters.EnaSupport,
                            supportSyntaxToBool(instanceTypeInfo.EnaSupport))
            [] k = "vcpusToMemoryRatio" ->
                 filterPair(filters.VCpusToMemoryRatio,
                            calculateVCpusToMemoryRatio(instanceTypeInfo.DefaultVCpus,
                                                        instanceTypeInfo.SizeInMiB))
            [] k = "currentGeneration" ->
                 filterPair(filters.CurrentGeneration,
                            Ptr("*bool", instanceTypeInfo.CurrentGeneration))
            [] k = "networkInterfaces" ->
                 filterPair(filters.NetworkInterfaces,
                            Ptr("*int64", instanceTypeInfo.MaximumNetworkInterfaces))
            [] k = "networkPerformance" ->
                 filterPair(filters.NetworkPerformance,
                            getNetworkPerformance(instanceTypeInfo.NetworkPerformance))]

(***************************************************************************)
(* executeFilters.                                                         *)
(***************************************************************************)
\* What the loop body does with one pair whose filter is not nil: the two
\* type switches.  returns = FALSE is falling through to the next pair.
Returned(supported, err) == [returns |-> TRUE, supported |-> supported, err |-> err]

FallThrough == [returns |-> FALSE, supported |-> TRUE, err |-> NoError]

Compared(ok) == IF ok THEN FallThrough ELSE Returned(FALSE, NoError)

FilterSwitch(filterName, filterVal, instanceSpec, instanceType) ==
    LET invalidInstanceSpecType ==
            Returned(FALSE, FilterTypeError("Unable to process for", filterName, instanceType))
    IN  CASE filterVal.shape = "*string" ->
               (CASE instanceSpec.shape = "[]*string" ->
                       Compared(isSupportedFromStrings(instanceSpec, filterVal))
                  [] instanceSpec.shape = "*string" ->
                       Compared(isSupportedFromString(instanceSpec, filterVal))
                  [] OTHER -> invalidInstanceSpecType)
          [] filterVal.shape = "*bool" ->
               (CASE instanceSpec.shape = "*bool" ->
                       Compared(isSupportedWithBool(instanceSpec, filterVal))
                  [] OTHER -> invalidInstanceSpecType)
          [] filterVal.shape = "*IntRangeFilter" ->
               (CASE instanceSpec.shape = "*int64" ->
                       Compared(isSupportedWithRangeInt64(instanceSpec, filterVal))
                  [] instanceSpec.shape = "*int" ->
                       Compared(isSupportedWithRangeInt(instanceSpec, filterVal))
                  [] OTHER -> invalidInstanceSpecType)
          [] filterVal.shape = "*float64" ->
               (CASE instanceSpec.shape = "*float64" ->
                       Compared(isSupportedWithFloat64(instanceSpec, filterVal))
                  [] OTHER -> invalidInstanceSpecType)
          [] OTHER ->
               Returned(FALSE, FilterTypeError("No filter handler found for",
                                               filterName, instanceType))

\* The pairs the loop does not skip: reflect.ValueOf(filterVal).IsNil() is false
PresentFilters(mapping) == { k \in DOMAIN mapping : ~mapping[k].filterValue.isNil }

\* Go ranges over a map in an unspecified order.  RangeOver(mapping, todo, t)
\* is the set of results the loop can return when the pairs still to visit
\* are todo: any of them may come next.  Pairs with a nil filter only
\* "continue", so the loop is run over the present ones.
RECURSIVE RangeOver(_, _, _)
RangeOver(mapping, todo, instanceType) ==
    IF todo = {} THEN { [supported |-> TRUE, err |-> NoError] }
    ELSE UNION {
           LET r == FilterSwitch(k, mapping[k].filterValue,
                                 mapping[k].instanceSpec, instanceType)
           IN  IF r.returns
               THEN { [supported |-> r.supported, err |-> r.err] }
               ELSE RangeOver(mapping, todo \ {k}, instanceType)
           : k \in todo }

\* executeFilters(filterToInstanceSpecMapping, instanceType): every
\* (supported, error) the call can return
executeFilters(filterToInstanceSpecMapping, instanceType) ==
    RangeOver(filterToInstanceSpecMapping,
              PresentFilters(filterToInstanceSpecMapping), instanceType)


(***************************************************************************)
(* Maps (Go map[string]T) are functions on the set of their keys.          *)
(***************************************************************************)
EmptyMap == <<>>

MapPut(m, k, v) == [n \in DOMAIN m \cup {k} |-> IF n = k THEN v ELSE m[n]]

MapDelete(m, k) == [n \in DOMAIN m \ {k} |-> m[n]]

\* isSupportedInLocation that never looks the name up
isSupportedInLocation_Always(instanceOfferings, instanceType) == TRUE

\* isSupportedInLocation(instanceOfferings, instanceType)
isSupportedInLocation(instanceOfferings, instanceType) ==
    IF instanceOfferings.isNil THEN TRUE
    ELSE instanceType \in DOMAIN instanceOfferings.v

(***************************************************************************)
(* sortInstanceTypeInfo.  sort.Slice on a slice this short is an insertion *)
(* sort driven by the less function the code passes.                       *)
(***************************************************************************)
\* the less function with the comparison turned round
sortLess_Descending(slice, i, j) ==
    Compare(slice[i].InstanceType, slice[j].InstanceType) >= 0

\* the less function: strings.Compare(*i.InstanceType, *j.InstanceType) <= 0
sortLess(slice, i, j) ==
    Compare(slice[i].InstanceType, slice[j].InstanceType) <= 0

Swap(slice, i, j) ==
    [slice EXCEPT ![i] = slice[j], ![j] = slice[i]]

\* for j := i; j > a && less(j, j-1); j-- { swap(j, j-1) }
RECURSIVE InsertDown(_, _)
InsertDown(slice, j) ==
    IF j > 1 /\ sortLess(slice, j, j - 1)
    THEN InsertDown(Swap(slice, j, j - 1), j - 1)
    ELSE slice

\* for i := a + 1; i < b; i++
RECURSIVE InsertionSortFrom(_, _)
InsertionSortFrom(slice, i) ==
    IF i > Len(slice) THEN slice
    ELSE InsertionSortFrom(InsertDown(slice, i), i + 1)

sortInstanceTypeInfo(instanceTypeInfoSlice) ==
    InsertionSortFrom(instanceTypeInfoSlice, 2)

(***************************************************************************)
(* truncateResults.  A slice expression with a negative upper index is a   *)
(* run-time panic (slice bounds out of range); so is one beyond the        *)
(* capacity, which is taken to be the length.                              *)
(***************************************************************************)
\* upperIndex one too far when the maximum is below the length
truncateUpperIndex_OneMore(maxResults, instanceTypeInfoSlice) ==
    IF maxResults.v >= Len(instanceTypeInfoSlice)
    THEN Len(instanceTypeInfoSlice)
    ELSE maxResults.v + 1

\* upperIndex as the code computes it (maxResults is not nil)
truncateUpperIndex(maxResults, instanceTypeInfoSlice) ==
    IF maxResults.v > Len(instanceTypeInfoSlice)
    THEN Len(instanceTypeInfoSlice)
    ELSE maxResults.v

truncateResults(maxResults, instanceTypeInfoSlice) ==
    IF maxResults.isNil
    THEN [panics |-> FALSE, slice |-> instanceTypeInfoSlice]
    ELSE LET upperIndex == truncateUpperIndex(maxResults, instanceTypeInfoSlice)
         IN  IF upperIndex < 0 \/ upperIndex > Len(instanceTypeInfoSlice)
             THEN [panics |-> TRUE, slice |-> <<>>]
             ELSE [panics |-> FALSE,
                   slice |-> SubSeq(instanceTypeInfoSlice, 1, upperIndex)]

(***************************************************************************)
(* Output formatters (pkg/selector/outputs is not part of selector.go).    *)
(* A display string is a byte sequence.                                    *)
(***************************************************************************)
\* outputs.SimpleInstanceTypeOutput: the instance type names
SimpleInstanceTypeOutput(instanceTypeInfoSlice) ==
    [i \in 1..Len(instanceTypeInfoSlice) |-> instanceTypeInfoSlice[i].InstanceType]

\* a formatter a caller of FilterWithOutput supplies: one line per record,
\* the name followed by the vCPU count
CallerOutput(instanceTypeInfoSlice) ==
    [i \in 1..Len(instanceTypeInfoSlice) |->
        Append(instanceTypeInfoSlice[i].InstanceType, instanceTypeInfoSlice[i].DefaultVCpus)]

\* outputFn.Output(instanceTypeInfoSlice)
Output(outputFn, instanceTypeInfoSlice) ==
    IF outputFn = "SimpleInstanceTypeOutput"
    THEN SimpleInstanceTypeOutput(instanceTypeInfoSlice)
    ELSE CallerOutput(instanceTypeInfoSlice)


(***************************************************************************)
(* Bounds of the model and the inputs an invocation is drawn from.         *)
(***************************************************************************)
MaxPages == 2

MaxPageLen == 3

MaxOfferingPages == 1

MaxOfferingPageLen == 2

SeqsUpTo(S, n) == UNION { [1..k -> S] : k \in 0..n }

\* instance type names, as bytes: "m5", "m5a", "t3"
NameM5 == <<109, 53>>

NameM5a == <<109, 53, 97>>

NameT3 == <<116, 51>>

Names == {NameM5, NameM5a, NameT3}

NoGpuInfo == NilPtr("*GpuInfo", [TotalGpuMemoryInMiB |-> 0, Gpus |-> <<>>])

NoFpgaInfo == NilPtr("*FpgaInfo", 0)

\* an ec2.InstanceTypeInfo, nested structs flattened to their leaves
InstanceTypeInfo(name, vcpus, mem, burstable, gpuInfo, network) ==
    [InstanceType |-> name,
     SupportedArchitectures |-> <<"x86_64">>,
     SupportedUsageClasses |-> <<"on-demand", "spot">>,
     SupportedRootDeviceTypes |-> <<"ebs">>,
     HibernationSupported |-> FALSE,
     DefaultVCpus |-> vcpus,
     SizeInMiB |-> mem,
     GpuInfo |-> gpuInfo,
     SupportedStrategies |-> <<"cluster", "spread">>,
     Hypervisor |-> "nitro",
     BareMetal |-> FALSE,
     BurstablePerformanceSupported |-> burstable,
     FpgaInfo |-> NoFpgaInfo,
     EnaSupport |-> "required",
     CurrentGeneration |-> TRUE,
     MaximumNetworkInterfaces |-> 3,
     NetworkPerformance |-> network]

\* The records the catalog provider can deliver.  Two of them carry the
\* name m5: a provider that repeats a name with other attributes.
CatalogRecords ==
    { InstanceTypeInfo(NameM5, 2, 8192, FALSE, NoGpuInfo, <<"Up", "to", "10", "Gigabit">>),
      InstanceTypeInfo(NameM5, 8, 32768, FALSE,
                       Ptr("*GpuInfo", [TotalGpuMemoryInMiB |-> 16384, Gpus |-> <<1>>]),
                       <<"25", "Gigabit">>),
      InstanceTypeInfo(NameM5a, 4, 16384, FALSE, NoGpuInfo, <<"Up", "to", "10", "Gigabit">>),
      InstanceTypeInfo(NameT3, 2, 1024, TRUE, NoGpuInfo, <<"Low", "to", "Moderate">>) }

\* the pages DescribeInstanceTypesPages can hand to the callback
CatalogPages == SeqsUpTo(CatalogRecords, MaxPageLen)

\* location strings
LocUse1Az1 == <<"u","s","e","1","-","a","z","1">>

LocUsEast1a == <<"u","s","-","e","a","s","t","-","1","a">>

LocUsEast1 == <<"u","s","-","e","a","s","t","-","1">>

LocNotAZone == <<"n","o","t","-","a","-","z","o","n","e">>

\* the pages DescribeInstanceTypeOfferingsPages can hand to the callback
\* when asked for zone
OfferingPages(zone) ==
    SeqsUpTo({ [InstanceType |-> n, Location |-> zone] : n \in Names },
             MaxOfferingPageLen)

\* the errors a paging call can report
ProviderErrors == { ProviderError("RequestError: send request failed"),
                    ProviderError("UnauthorizedOperation") }

(***************************************************************************)
(* Filters (its declaration is not in selector.go): every field is a       *)
(* pointer, nil when the user gave no such filter.                         *)
(***************************************************************************)
NoRange == IntRange(FALSE, 0, FALSE, 0)

NoFilters ==
    [AvailabilityZone |-> NilPtr("*string", <<>>),
     Region |-> NilPtr("*string", <<>>),
     MaxResults |-> NilPtr("*int", 0),
     CPUArchitecture |-> NilPtr("*string", ""),
     UsageClass |-> NilPtr("*string", ""),
     RootDeviceType |-> NilPtr("*string", ""),
     HibernationSupported |-> NilPtr("*bool", FALSE),
     VCpusRange |-> NilPtr("*IntRangeFilter", NoRange),
     MemoryRange |-> NilPtr("*IntRangeFilter", NoRange),
     GpuMemoryRange |-> NilPtr("*IntRangeFilter", NoRange),
     GpusRange |-> NilPtr("*IntRangeFilter", NoRange),
     PlacementGroupStrategy |-> NilPtr("*string", ""),
     Hypervisor |-> NilPtr("*string", ""),
     BareMetal |-> NilPtr("*bool", FALSE),
     Burstable |-> NilPtr("*bool", FALSE),
     Fpga |-> NilPtr("*bool", FALSE),
     EnaSupport |-> NilPtr("*bool", FALSE),
     VCpusToMemoryRatio |-> NilPtr("*float64", 0),
     CurrentGeneration |-> NilPtr("*bool", FALSE),
     NetworkInterfaces |-> NilPtr("*IntRangeFilter", NoRange),
     NetworkPerformance |-> NilPtr("*IntRangeFilter", NoRange)]

\* The attribute filters of the invocations explored.  The last three pair
\* a filter with an attribute no comparator handles: the ratio given as a
\* range (alone, and beside a vCPU range some records fail), and a network
\* performance filter of a type executeFilters has no case for.
AttributeFilters ==
    { NoFilters,
      [NoFilters EXCEPT !.VCpusRange = Ptr("*IntRangeFilter", IntRange(TRUE, 2, TRUE, 2))],
      [NoFilters EXCEPT !.Burstable = Ptr("*bool", FALSE),
                        !.CPUArchitecture = Ptr("*string", "x86_64"),
                        !.MemoryRange = Ptr("*IntRangeFilter", IntRange(TRUE, 8192, FALSE, 0))],
      [NoFilters EXCEPT !.VCpusToMemoryRatio =
                            Ptr("*IntRangeFilter", IntRange(TRUE, 0, TRUE, 1))],
      [NoFilters EXCEPT !.VCpusRange = Ptr("*IntRangeFilter", IntRange(TRUE, 2, TRUE, 2)),
                        !.VCpusToMemoryRatio =
                            Ptr("*IntRangeFilter", IntRange(TRUE, 0, TRUE, 1))],
      [NoFilters EXCEPT !.Burstable = Ptr("*bool", TRUE),
                        !.NetworkPerformance = Ptr("*int", 10)] }

\* the (AvailabilityZone, Region) pairs explored
LocationChoices ==
    { <<NilPtr("*string", <<>>), NilPtr("*string", <<>>)>>,
      <<Ptr("*string", LocUse1Az1), NilPtr("*string", <<>>)>>,
      <<Ptr("*string", LocUsEast1a), Ptr("*string", LocNotAZone)>>,
      <<NilPtr("*string", <<>>), Ptr("*string", LocUsEast1)>>,
      <<Ptr("*string", LocNotAZone), Ptr("*string", LocUsEast1)>> }

\* the MaxResults values explored
MaxResultsChoices ==
    { NilPtr("*int", 0), Ptr("*int", -1), Ptr("*int", 0), Ptr("*int", 1), Ptr("*int", 2) }

\* the Filters of the invocations explored, MaxResults left open
FilterSpecs ==
    { [f EXCEPT !.AvailabilityZone = l[1], !.Region = l[2]] :
        f \in AttributeFilters, l \in LocationChoices }


(***************************************************************************)
(* The page callback of rawFilter.                                         *)
(***************************************************************************)
\* an insertion that keeps the record a name already has
insertCandidate_KeepFirst(candidates, instanceTypeName, instanceTypeInfo) ==
    IF instanceTypeName \in DOMAIN candidates THEN candidates
    ELSE MapPut(candidates, instanceTypeName, instanceTypeInfo)

\* instanceTypeCandidates[instanceTypeName] = instanceTypeInfo
insertCandidate(candidates, instanceTypeName, instanceTypeInfo) ==
    MapPut(candidates, instanceTypeName, instanceTypeInfo)

\* a callback that goes on whatever executeFilters reported
callbackStops_Never(err) == FALSE

\* if innerErr != nil { return false }
callbackStops(err) == err # NoError

\* One turn of the loop over page.InstanceTypes, for the record
\* instanceTypeInfo: every (candidates, innerErr, stops) it can end with,
\* one for each result executeFilters can return.  stops is the callback
\* returning false.
LoopBody(filters, offerings, candidates, instanceTypeInfo) ==
    LET instanceTypeName == instanceTypeInfo.InstanceType
        inserted == insertCandidate(candidates, instanceTypeName, instanceTypeInfo)
        pairs == filterToInstanceSpecMappingPairs(filters, instanceTypeInfo)
        afterLocation == IF ~isSupportedInLocation(offerings, instanceTypeName)
                         THEN MapDelete(inserted, instanceTypeName)
                         ELSE inserted
    IN  { IF callbackStops(r.err)
          THEN [candidates |-> afterLocation, innerErr |-> r.err, stops |-> TRUE]
          ELSE [candidates |-> IF ~r.supported
                               THEN MapDelete(afterLocation, instanceTypeName)
                               ELSE afterLocation,
                innerErr |-> r.err, stops |-> FALSE]
          : r \in executeFilters(pairs, instanceTypeName) }

(***************************************************************************)
(* What rawFilter and the entry points return.                             *)
(***************************************************************************)
NilSlice == NilPtr("[]*InstanceTypeInfo", <<>>)

Slice(seq) == Ptr("[]*InstanceTypeInfo", seq)

\* rawFilter returning the candidates collected so far beside an error
rawFilterReturn_KeepsPartial(err, innerError, collected) ==
    IF err # NoError
    THEN [slice |-> Slice(sortInstanceTypeInfo(collected)), err |-> err]
    ELSE IF innerError # NoError
    THEN [slice |-> Slice(sortInstanceTypeInfo(collected)), err |-> innerError]
    ELSE [slice |-> Slice(sortInstanceTypeInfo(collected)), err |-> NoError]

\* The end of rawFilter once DescribeInstanceTypesPages has returned err:
\* the two error checks, then the candidates collected into a slice (in the
\* order the map yields them) and sorted.
rawFilterReturn(err, innerError, collected) ==
    IF err # NoError THEN [slice |-> NilSlice, err |-> err]
    ELSE IF innerError # NoError THEN [slice |-> NilSlice, err |-> innerError]
    ELSE [slice |-> Slice(sortInstanceTypeInfo(collected)), err |-> NoError]

\* the orders in which ranging over the candidate map can yield its values
MapValueOrders(m) ==
    { [i \in 1..Cardinality(DOMAIN m) |-> m[order[i]]] :
        order \in { o \in [1..Cardinality(DOMAIN m) -> DOMAIN m] :
                      \A i, j \in DOMAIN o : i # j => o[i] # o[j] } }

NilStrings == NilPtr("[]string", <<>>)

\* FilterVerbose, given what rawFilter returned
FilterVerbose(maxResults, rawReturn) ==
    IF rawReturn.err # NoError
    THEN [entry |-> "FilterVerbose", maxResults |-> maxResults, panics |-> FALSE,
          slice |-> NilSlice, output |-> NilStrings, err |-> rawReturn.err,
          outputCalls |-> 0]
    ELSE LET truncated == truncateResults(maxResults, rawReturn.slice.v)
         IN  [entry |-> "FilterVerbose", maxResults |-> maxResults,
              panics |-> truncated.panics,
              slice |-> IF truncated.panics THEN NilSlice ELSE Slice(truncated.slice),
              output |-> NilStrings, err |-> NoError, outputCalls |-> 0]

\* FilterWithOutput, given what rawFilter returned
FilterWithOutput(entryPoint, maxResults, outputFn, rawReturn) ==
    IF rawReturn.err # NoError
    THEN [entry |-> entryPoint, maxResults |-> maxResults, panics |-> FALSE,
          slice |-> NilSlice, output |-> NilStrings, err |-> rawReturn.err,
          outputCalls |-> 0]
    ELSE LET truncated == truncateResults(maxResults, rawReturn.slice.v)
         IN  IF truncated.panics
             THEN [entry |-> entryPoint, maxResults |-> maxResults, panics |-> TRUE,
                   slice |-> NilSlice, output |-> NilStrings, err |-> NoError,
                   outputCalls |-> 0]
             ELSE [entry |-> entryPoint, maxResults |-> maxResults, panics |-> FALSE,
                   slice |-> NilSlice,
                   output |-> Ptr("[]string", Output(outputFn, truncated.slice)),
                   err |-> NoError, outputCalls |-> 1]

(***************************************************************************)
(* State.                                                                  *)
(***************************************************************************)
VARIABLES
    filters,                    \* the Filters argument (MaxResults apart, which
                                \* only the entry point reads: see ret)
    pc,                         \* where the invocation stands
    locationInstanceOfferings,  \* the map RetrieveInstanceTypesSupportedInLocation
                                \* builds (availableInstanceTypes) and returns
    instanceTypeCandidates,     \* rawFilter's candidate map
    innerErr,                   \* rawFilter's innerErr
    raw,                        \* what rawFilter returned: [slice, err]
    ret,                        \* what the entry point returned, with the entry
                                \* point it was and the MaxResults it was given
    offeringsCalls,             \* calls of DescribeInstanceTypeOfferingsPages
    typesCalls,                 \* calls of DescribeInstanceTypesPages
    pagesLeft,                  \* pages the paging call in progress still holds
    recordsLeft,                \* records of the current page the callback has
                                \* not yet come to
    failedCall,                 \* the paging call that reported an error, and the error
    run                         \* bookkeeping of the catalog sweep (see RunInit)

vars == <<filters, pc, locationInstanceOfferings, instanceTypeCandidates,
          innerErr, raw, ret, offeringsCalls, typesCalls, pagesLeft, recordsLeft,
          failedCall, run>>

\* What the catalog sweep has seen, kept beside the program's own state:
\*   last       for each name delivered, the record delivered last under it
\*   repeated   whether some name was delivered more than once
\*   removed    the names that were deleted from the candidate map at some time
\*   firstErr   the first error executeFilters reported (isSet: there was one)
\*   afterErr   whether the loop body ran again after that error
RunInit ==
    [last |-> EmptyMap, repeated |-> FALSE, removed |-> {},
     firstErr |-> [isSet |-> FALSE, err |-> NoError], afterErr |-> FALSE]

NoReturn ==
    [entry |-> "", maxResults |-> NilPtr("*int", 0), panics |-> FALSE,
     slice |-> NilSlice, output |-> NilStrings, err |-> NoError, outputCalls |-> 0]

NoRaw == [slice |-> NilSlice, err |-> NoError]

NilMap == NilPtr("map[string]string", EmptyMap)

NoFailedCall == [call |-> "", err |-> NoError]

Init ==
    /\ filters \in FilterSpecs
    /\ pc = "start"
    /\ locationInstanceOfferings = NilMap
    /\ instanceTypeCandidates = EmptyMap
    /\ innerErr = NoError
    /\ raw = NoRaw
    /\ ret = NoReturn
    /\ offeringsCalls = 0
    /\ typesCalls = 0
    /\ pagesLeft = 0
    /\ recordsLeft = 0
    /\ failedCall = NoFailedCall
    /\ run = RunInit

\* rawFilter's choice of location: the availability zone before the region
LocationOf(f) ==
    IF ~f.AvailabilityZone.isNil THEN f.AvailabilityZone.v
    ELSE IF ~f.Region.isNil THEN f.Region.v
    ELSE <<>>

(***************************************************************************)
(* rawFilter up to the offerings call.                                     *)
(***************************************************************************)
\* zone == "": RetrieveInstanceTypesSupportedInLocation returns nil, nil and
\* rawFilter calls DescribeInstanceTypesPages, which holds some pages.
NoLocation ==
    /\ pc = "start"
    /\ LocationOf(filters) = <<>>
    /\ locationInstanceOfferings' = NilMap
    /\ typesCalls' = typesCalls + 1
    /\ pagesLeft' \in 0..MaxPages
    /\ pc' = "pagingTypes"
    /\ UNCHANGED <<filters, instanceTypeCandidates, innerErr, raw, ret,
                   offeringsCalls, recordsLeft, failedCall, run>>

\* No pattern matches: the error comes back through rawFilter.
InvalidLocation ==
    /\ pc = "start"
    /\ LocationOf(filters) # <<>>
    /\ LocationTypeOf(LocationOf(filters)) = ""
    /\ raw' = [slice |-> NilSlice, err |-> InvalidLocationError(LocationOf(filters))]
    /\ pc' = "rawReturned"
    /\ UNCHANGED <<filters, locationInstanceOfferings, instanceTypeCandidates,
                   innerErr, ret, offeringsCalls, typesCalls, pagesLeft,
                   recordsLeft, failedCall, run>>

\* A pattern matches: DescribeInstanceTypeOfferingsPages is called, and
\* holds some pages.
DescribeOfferings ==
    /\ pc = "start"
    /\ LocationOf(filters) # <<>>
    /\ LocationTypeOf(LocationOf(filters)) # ""
    /\ locationInstanceOfferings' = Ptr("map[string]string", EmptyMap)
    /\ offeringsCalls' = offeringsCalls + 1
    /\ pagesLeft' \in 0..MaxOfferingPages
    /\ pc' = "pagingOfferings"
    /\ UNCHANGED <<filters, instanceTypeCandidates, innerErr, raw, ret,
                   typesCalls, recordsLeft, failedCall, run>>

(***************************************************************************)
(* DescribeInstanceTypeOfferingsPages and its callback.                    *)
(***************************************************************************)
\* availableInstanceTypes[*instanceType.InstanceType] = *instanceType.Location
\* for every offering of the page
RECURSIVE AddOfferings(_, _)
AddOfferings(available, page) ==
    IF page = <<>> THEN available
    ELSE AddOfferings(MapPut(available, Head(page).InstanceType, Head(page).Location),
                      Tail(page))

OfferingsPage ==
    /\ pc = "pagingOfferings"
    /\ pagesLeft > 0
    /\ \E page \in OfferingPages(LocationOf(filters)) :
         locationInstanceOfferings' =
             [locationInstanceOfferings EXCEPT !.v = AddOfferings(@, page)]
    /\ pagesLeft' = pagesLeft - 1
    /\ UNCHANGED <<filters, pc, instanceTypeCandidates, innerErr, raw, ret,
                   offeringsCalls, typesCalls, recordsLeft, failedCall, run>>

\* No more pages: the map is returned and rawFilter calls
\* DescribeInstanceTypesPages, which holds some pages.
OfferingsDone ==
    /\ pc = "pagingOfferings"
    /\ pagesLeft = 0
    /\ typesCalls' = typesCalls + 1
    /\ pagesLeft' \in 0..MaxPages
    /\ pc' = "pagingTypes"
    /\ UNCHANGED <<filters, locationInstanceOfferings, instanceTypeCandidates,
                   innerErr, raw, ret, offeringsCalls, recordsLeft, failedCall, run>>

\* The call reports an error instead of its next page: the error is wrapped
\* and comes back through rawFilter.
OfferingsFail ==
    /\ pc = "pagingOfferings"
    /\ \E e \in ProviderErrors :
         /\ failedCall' = [call |-> "DescribeInstanceTypeOfferingsPages", err |-> e]
         /\ raw' = [slice |-> NilSlice, err |-> WrapOfferingsError(e)]
    /\ pc' = "rawReturned"
    /\ UNCHANGED <<filters, locationInstanceOfferings, instanceTypeCandidates,
                   innerErr, ret, offeringsCalls, typesCalls, pagesLeft,
                   recordsLeft, run>>

(***************************************************************************)
(* DescribeInstanceTypesPages and rawFilter's callback.                    *)
(***************************************************************************)
\* The next page is handed to the callback.  An empty page has the callback
\* return true at once.
TypesPage ==
    /\ pc = "pagingTypes"
    /\ pagesLeft > 0
    /\ pagesLeft' = pagesLeft - 1
    /\ recordsLeft' \in 0..MaxPageLen
    /\ pc' = IF recordsLeft' = 0 THEN "pagingTypes" ELSE "callback"
    /\ UNCHANGED <<filters, locationInstanceOfferings, instanceTypeCandidates,
                   innerErr, raw, ret, offeringsCalls, typesCalls, failedCall, run>>

\* One turn of the callback's loop, for the page's next record.  After the
\* page's last record the callback returns true.  When it returns false the
\* paging call returns (without an error of its own) and rawFilter returns.
CallbackRecord ==
    /\ pc = "callback"
    /\ recordsLeft > 0
    /\ \E instanceTypeInfo \in CatalogRecords :
         \E out \in LoopBody(filters, locationInstanceOfferings,
                             instanceTypeCandidates, instanceTypeInfo) :
           /\ instanceTypeCandidates' = out.candidates
           /\ innerErr' = out.innerErr
           /\ run' = [last |-> MapPut(run.last, instanceTypeInfo.InstanceType,
                                      instanceTypeInfo),
                      repeated |-> run.repeated
                                   \/ instanceTypeInfo.InstanceType \in DOMAIN run.last,
                      removed |-> IF instanceTypeInfo.InstanceType \in DOMAIN out.candidates
                                  THEN run.removed
                                  ELSE run.removed \cup {instanceTypeInfo.InstanceType},
                      firstErr |-> IF ~run.firstErr.isSet /\ out.innerErr # NoError
                                   THEN [isSet |-> TRUE, err |-> out.innerErr]
                                   ELSE run.firstErr,
                      afterErr |-> run.afterErr \/ run.firstErr.isSet]
           /\ IF out.stops
              THEN /\ pc' = "rawReturned"
                   /\ recordsLeft' = recordsLeft - 1
                   /\ \E collected \in MapValueOrders(out.candidates) :
                        raw' = rawFilterReturn(NoError, out.innerErr, collected)
              ELSE /\ pc' = IF recordsLeft = 1 THEN "pagingTypes" ELSE "callback"
                   /\ recordsLeft' = recordsLeft - 1
                   /\ raw' = raw
    /\ UNCHANGED <<filters, locationInstanceOfferings, ret, offeringsCalls,
                   typesCalls, pagesLeft, failedCall>>

\* No more pages: the paging call returns nil and rawFilter finishes.
TypesDone ==
    /\ pc = "pagingTypes"
    /\ pagesLeft = 0
    /\ \E collected \in MapValueOrders(instanceTypeCandidates) :
         raw' = rawFilterReturn(NoError, innerErr, collected)
    /\ pc' = "rawReturned"
    /\ UNCHANGED <<filters, locationInstanceOfferings, instanceTypeCandidates,
                   innerErr, ret, offeringsCalls, typesCalls, pagesLeft,
                   recordsLeft, failedCall, run>>

\* The paging call reports an error instead of its next page.
TypesFail ==
    /\ pc = "pagingTypes"
    /\ \E e \in ProviderErrors :
         /\ failedCall' = [call |-> "DescribeInstanceTypesPages", err |-> e]
         /\ \E collected \in MapValueOrders(instanceTypeCandidates) :
              raw' = rawFilterReturn(PassTypesError(e), innerErr, collected)
    /\ pc' = "rawReturned"
    /\ UNCHANGED <<filters, locationInstanceOfferings, instanceTypeCandidates,
                   innerErr, ret, offeringsCalls, typesCalls, pagesLeft,
                   recordsLeft, run>>

(***************************************************************************)
(* The entry points, from rawFilter's return on.  rawFilter reads neither  *)
(* which entry point called it nor Filters.MaxResults, so both are drawn   *)
(* here, where they are first read.                                        *)
(***************************************************************************)
Finish(result) ==
    /\ ret' = result
    /\ pc' = IF result.panics THEN "panicked" ELSE "done"
    /\ UNCHANGED <<filters, locationInstanceOfferings, instanceTypeCandidates,
                   innerErr, raw, offeringsCalls, typesCalls, pagesLeft,
                   recordsLeft, failedCall, run>>

FilterVerboseReturn ==
    /\ pc = "rawReturned"
    /\ \E maxResults \in MaxResultsChoices :
         Finish(FilterVerbose(maxResults, raw))

\* Filter is FilterWithOutput with outputs.SimpleInstanceTypeOutput
FilterReturn ==
    /\ pc = "rawReturned"
    /\ \E maxResults \in MaxResultsChoices :
         Finish(FilterWithOutput("Filter", maxResults, "SimpleInstanceTypeOutput", raw))

FilterWithOutputReturn ==
    /\ pc = "rawReturned"
    /\ \E maxResults \in MaxResultsChoices :
         Finish(FilterWithOutput("FilterWithOutput", maxResults, "CallerOutput", raw))

Next ==
    \/ NoLocation
    \/ InvalidLocation
    \/ DescribeOfferings
    \/ OfferingsPage
    \/ OfferingsDone
    \/ OfferingsFail
    \/ TypesPage
    \/ CallbackRecord
    \/ TypesDone
    \/ TypesFail
    \/ FilterVerboseReturn
    \/ FilterReturn
    \/ FilterWithOutputReturn

Spec == Init /\ [][Next]_vars

(***************************************************************************)
(* Properties.                                                             *)
(***************************************************************************)
RawReturnedPcs == {"rawReturned", "done", "panicked"}

\* the records of a slice, and their names
SliceSet(slice) == { slice.v[i] : i \in 1..Len(slice.v) }

SliceNames(slice) == { slice.v[i].InstanceType : i \in 1..Len(slice.v) }

\* a location was requested
LocationRequested == LocationOf(filters) # <<>>

\* the record passes every present filter: each comparator says yes
PassesEveryFilter(instanceTypeInfo) ==
    LET pairs == filterToInstanceSpecMappingPairs(filters, instanceTypeInfo)
    IN  \A k \in PresentFilters(pairs) :
            ~FilterSwitch(k, pairs[k].filterValue, pairs[k].instanceSpec,
                          instanceTypeInfo.InstanceType).returns

\* some present filter of the record is paired with an attribute no
\* comparator handles
HasMismatchedFilter(instanceTypeInfo) ==
    LET pairs == filterToInstanceSpecMappingPairs(filters, instanceTypeInfo)
    IN  \E k \in PresentFilters(pairs) :
            FilterSwitch(k, pairs[k].filterValue, pairs[k].instanceSpec,
                         instanceTypeInfo.InstanceType).err # NoError

\* no location was requested, or the name is a key of the resolved index
LocationValid(instanceTypeName) ==
    ~LocationRequested \/ instanceTypeName \in DOMAIN locationInstanceOfferings.v

\* the records delivered that are location-valid and pass every filter
\* (under each name, the record delivered last)
Matching ==
    { run.last[n] : n \in { n \in DOMAIN run.last :
                              LocationValid(n) /\ PassesEveryFilter(run.last[n]) } }

StrictlyAscending(names) ==
    \A i \in 1..(Len(names) - 1) : Compare(names[i], names[i + 1]) < 0

Min(a, b) == IF a < b THEN a ELSE b

Prefix(seq, n) == [i \in 1..n |-> seq[i]]

\* C1: when the catalog names are unique and rawFilter succeeds, it returns
\* exactly the delivered records that pass every present filter and are
\* location-valid, each once; FilterVerbose without a maximum returns the same.
C1_ExactlyTheMatchingRecords ==
    (pc \in RawReturnedPcs /\ raw.err = NoError /\ ~run.repeated) =>
        /\ ~raw.slice.isNil
        /\ SliceSet(raw.slice) = Matching
        /\ Len(raw.slice.v) = Cardinality(Matching)
        /\ (pc = "done" /\ ret.entry = "FilterVerbose" /\ ret.maxResults.isNil)
               => ret.slice = raw.slice

\* C1 witness: FilterVerbose without a maximum returned a record while the
\* location index kept one delivered record out and a filter another.
C1_Witness ==
    /\ pc = "done" /\ ret.entry = "FilterVerbose" /\ ret.maxResults.isNil
    /\ ret.err = NoError /\ ~run.repeated /\ LocationRequested
    /\ Len(ret.slice.v) >= 1
    /\ \E n \in DOMAIN run.last : ~LocationValid(n)
    /\ \E n \in DOMAIN run.last : LocationValid(n) /\ ~PassesEveryFilter(run.last[n])

\* C2: an operation that ends with an error returns nothing else: rawFilter
\* hands back a nil slice with the error, the entry point returns the error
\* with a nil slice and nil output, and the formatter is not called.
C2_NothingReturnedWithAnError ==
    /\ (pc \in RawReturnedPcs /\ raw.err # NoError) => raw.slice.isNil
    /\ (pc \in RawReturnedPcs
          /\ (failedCall.call # "" \/ run.firstErr.isSet
                \/ (LocationRequested /\ LocationTypeOf(LocationOf(filters)) = "")))
         => raw.err # NoError
    /\ (pc \in {"done", "panicked"} /\ raw.err # NoError) =>
          /\ pc = "done"
          /\ ret.err = raw.err
          /\ ret.slice.isNil
          /\ ret.output.isNil
          /\ ret.outputCalls = 0

\* C2 witness: the catalog call failed after candidates had been collected,
\* and FilterWithOutput returned the error.
C2_Witness ==
    /\ pc = "done" /\ ret.entry = "FilterWithOutput" /\ ret.err # NoError
    /\ failedCall.call = "DescribeInstanceTypesPages"
    /\ DOMAIN instanceTypeCandidates # {}

\* C3: a requested location that matches none of the three patterns ends
\* the operation with the invalid-location error, and neither paging call
\* is ever made.
C3_InvalidLocationFetchesNothing ==
    (/\ LocationRequested
     /\ ~MatchZoneID(LocationOf(filters))
     /\ ~MatchZoneName(LocationOf(filters))
     /\ ~MatchRegionName(LocationOf(filters))) =>
        /\ offeringsCalls = 0
        /\ typesCalls = 0
        /\ pc \in {"start", "rawReturned", "done"}
        /\ pc # "start" => raw.err = InvalidLocationError(LocationOf(filters))
        /\ pc = "done" => ret.err = InvalidLocationError(LocationOf(filters))

\* C3 witness: an invocation with the location "not-a-zone" has returned.
C3_Witness ==
    /\ pc = "done"
    /\ LocationOf(filters) = LocNotAZone
    /\ ret.err.kind = "InvalidLocationFormat"

\* C4: what a successful operation returns is strictly ascending by name
\* and holds each candidate once, whatever order the map yielded them in;
\* so the candidate set alone fixes the sequence.
C4_StrictlyAscendingByName ==
    /\ (pc \in RawReturnedPcs /\ raw.err = NoError) =>
          /\ StrictlyAscending([i \in 1..Len(raw.slice.v) |-> raw.slice.v[i].InstanceType])
          /\ SliceSet(raw.slice) = { instanceTypeCandidates[n] :
                                       n \in DOMAIN instanceTypeCandidates }
          /\ Len(raw.slice.v) = Cardinality(DOMAIN instanceTypeCandidates)
    /\ (pc = "done" /\ ret.err = NoError /\ ret.entry = "FilterVerbose") =>
          StrictlyAscending([i \in 1..Len(ret.slice.v) |-> ret.slice.v[i].InstanceType])
    /\ (pc = "done" /\ ret.err = NoError /\ ret.entry = "Filter") =>
          StrictlyAscending(ret.output.v)

\* C4 witness: Filter returned all three names, in order.
C4_Witness ==
    /\ pc = "done" /\ ret.err = NoError /\ ret.entry = "Filter"
    /\ Len(ret.output.v) = 3
    /\ ret.output.v[1] = NameM5 /\ ret.output.v[2] = NameM5a /\ ret.output.v[3] = NameT3

\* C5: with no maximum the sorted sequence is returned unchanged; with a
\* maximum N >= 0 its first min(N, len) entries are, in the same order.
C5_TruncatesToThePrefix ==
    (pc = "done" /\ ret.err = NoError
       /\ (ret.maxResults.isNil \/ ret.maxResults.v >= 0)) =>
        LET kept == IF ret.maxResults.isNil THEN raw.slice.v
                    ELSE Prefix(raw.slice.v, Min(ret.maxResults.v, Len(raw.slice.v)))
        IN  /\ ret.entry = "FilterVerbose" => ret.slice.v = kept
            /\ ret.entry = "Filter" =>
                   ret.output.v = [i \in 1..Len(kept) |-> kept[i].InstanceType]
            /\ ret.entry = "FilterWithOutput" => Len(ret.output.v) = Len(kept)

\* C5 witness: three records matched and a maximum of 2 cut them to two.
C5_Witness ==
    /\ pc = "done" /\ ret.err = NoError /\ ret.entry = "FilterVerbose"
    /\ ~ret.maxResults.isNil /\ ret.maxResults.v = 2
    /\ Len(raw.slice.v) = 3 /\ Len(ret.slice.v) = 2

\* C6: an error of either paging call reaches the caller wrapped, the
\* wrapping naming the call that failed and keeping the original error, and
\* neither call is made twice.
C6_PagingErrorsAreWrapped ==
    /\ offeringsCalls <= 1 /\ typesCalls <= 1
    /\ (pc \in RawReturnedPcs /\ failedCall.call # "") =>
          /\ raw.err.kind = "Wrapped"
          /\ raw.err.wraps = failedCall.err.msg
          /\ raw.err.msg # ""
          /\ (raw.err.msg = "Encountered an error when describing instance type offerings")
                 <=> (failedCall.call = "DescribeInstanceTypeOfferingsPages")

\* C7: once executeFilters has reported an error the callback has answered
\* stop: the loop body never runs again, and that first error is innerErr,
\* is what rawFilter returns and is what the caller gets.
C7_StopsAtTheFirstDispatchError ==
    run.firstErr.isSet =>
        /\ ~run.afterErr
        /\ innerErr = run.firstErr.err
        /\ pc \in {"rawReturned", "done"}
        /\ raw.err = run.firstErr.err
        /\ pc = "done" => ret.err = run.firstErr.err

\* C7 witness: the error came on a later record than the first, with
\* records of the page and pages of the catalog still to come.
C7_Witness ==
    /\ pc = "done" /\ run.firstErr.isSet
    /\ ret.err.kind = "UnsupportedFilterType"
    /\ Cardinality(DOMAIN run.last) >= 2
    /\ recordsLeft > 0 /\ pagesLeft > 0

\* C8: whenever a record handed to executeFilters has a present filter
\* paired with an attribute no comparator handles, executeFilters has
\* reported the unsupported-filter-type error.
C8_MismatchAlwaysReported ==
    \A n \in DOMAIN run.last :
        HasMismatchedFilter(run.last[n]) =>
            run.firstErr.isSet /\ run.firstErr.err.kind = "UnsupportedFilterType"

\* C9 as stated: a name that was removed from the candidate set is absent
\* from the result of a successful operation.
C9_RemovedNamesStayOut ==
    (pc \in RawReturnedPcs /\ raw.err = NoError) =>
        run.removed \cap SliceNames(raw.slice) = {}

\* C9 amended: every record is inserted anew and judged on its own, so the
\* verdict of the last occurrence of a name stands: the result of a
\* successful operation holds a name iff the record delivered last under it
\* is location-valid and passes every filter, and holds that record.
C9_LastOccurrenceStands ==
    (pc \in RawReturnedPcs /\ raw.err = NoError) =>
        /\ SliceNames(raw.slice) =
               { n \in DOMAIN run.last :
                   LocationValid(n) /\ PassesEveryFilter(run.last[n]) }
        /\ \A i \in 1..Len(raw.slice.v) :
               raw.slice.v[i] = run.last[raw.slice.v[i].InstanceType]

\* C9 witness: a name removed earlier is in the result.
C9_Witness ==
    /\ pc = "done" /\ ret.err = NoError
    /\ run.removed \cap SliceNames(raw.slice) # {}

\* C10: truncateResults never slices outside its input: for every present
\* maxResults the upper index lies in 0..len(input) and the entry point
\* completes.
C10_TruncateStaysInBounds ==
    /\ pc # "panicked"
    /\ (pc = "done" /\ ret.err = NoError /\ ~ret.maxResults.isNil) =>
          truncateUpperIndex(ret.maxResults, raw.slice.v) \in 0..Len(raw.slice.v)

====
